---- MODULE Spec2Model ----
(***************************************************************************)
(* Model of the kick-bot connection orchestrator:                          *)
(*   - the dashboard (statistics aggregator), internal/dashboard           *)
(*   - the session task, cmd/kick-bot/main.go startConnection and          *)
(*     internal/kick ConnectionHandler.StartWithDashboard / Start          *)
(*   - the ramp-up scheduler and the shutdown path of main                 *)
(*                                                                         *)
(* Conventions.                                                            *)
(*   time.Time is a natural number, 0 being the zero Time.                 *)
(*   SuccessRate (float64) is an exact fraction <<numerator, denominator>> *)
(*   in lowest terms; floating-point rounding is not modelled.             *)
(*   ctx.Done() is the boolean cancelled.                                  *)
(***************************************************************************)
EXTENDS Integers, Sequences, FiniteSets, TLC

\* ------------------------------------------------------------------------
\* Bounds of the model
\* ------------------------------------------------------------------------
\* largest number of viewers the operator asks for
MaxViewers == 2
\* largest batch size the operator asks for
MaxBatchSize == 2
\* the same two, for the scheduler taken alone
MaxTotalCount == 7
MaxGroupSize == 3
\* latest reading of the clock, for the dashboard called in sequence
MaxTime == 3

\* ------------------------------------------------------------------------
\* Program constants
\* ------------------------------------------------------------------------
StatusConnecting == 0
StatusConnected == 1
StatusRetrying == 2
StatusFailed == 3
maxRetries == 5

Statuses == {StatusConnecting, StatusConnected, StatusRetrying, StatusFailed}

\* attempts arguments the dashboard is exercised with (0: no attempt recorded)
AttemptsIn == {0, 1}

\* lastError arguments: the session task passes "" with Connecting and
\* Connected and the text of an error with Retrying and Failed
ErrorsIn(status) ==
    IF status \in {StatusConnecting, StatusConnected} THEN {""} ELSE {"error"}

\* ch.channelID: the channel id GetChannelID returned for the channel of the
\* run, handed to every handler
chChannelID == 1

VARIABLES
    totalViewers,   \* main: totalViewers
    d,              \* Dashboard.stats (ConnectionStats without the mutex)
    mu,             \* ConnectionStats.mu: [writers, readers]
    now,            \* the clock read by time.Now()
    upc,            \* per caller: position inside UpdateConnection
    utodo,          \* per caller: keys recalculateStats' range has yet to visit
    ncalls,         \* per caller: UpdateConnection calls begun (race test)
    ucall,          \* history (dashboard specifications): the arguments of the
                    \* latest UpdateConnection call and the status its index
                    \* had before it
    rpc,            \* the reader's position inside GetStats
    snap,           \* the StatsSnapshot GetStats is building / has returned
    slowMode,       \* main: *slowMode
    batchSize,      \* main: *batchSize
    noDashboard,    \* main: *noDashboard (dash is nil exactly when it is set)
    cancelled,      \* ctx: cancel() has been called, ctx.Done() is closed
    wg,             \* sync.WaitGroup counter
    mpc,            \* main: position
    mi,             \* scheduler: loop variable i
    mj,             \* scheduler: loop variable j of the batch being started
    pc,             \* per session task: position
    attempt,        \* per session task: StartWithDashboard's attempt
    counter,        \* per session task: messageLoop's counter, modulo 2
    chConn,         \* per session task: ch.conn ("nil", "open", "closed")
    connectionErr,  \* per session task: the error the task ends with ("" is nil)
    dials,          \* per session task: calls of connect() made so far
    launches,       \* history, per index: go startConnection statements run
    group,          \* history, per index: the batch (0-based) that launched it
    batches,        \* history: batches the batched scheduler has started
    reports         \* history, per index: the <<status, attempts>> pairs the
                    \* task has passed to UpdateConnection, in order

dashVars == <<d, mu, now, upc, utodo, ncalls, ucall, rpc, snap>>
cfgVars == <<totalViewers, slowMode, batchSize, noDashboard>>
mainVars == <<mpc, mi, mj, launches, group, batches>>
taskVars == <<pc, attempt, counter, chConn, connectionErr, dials, reports>>
runVars == <<slowMode, batchSize, noDashboard, cancelled, wg, mpc, mi, mj,
             pc, attempt, counter, chConn, connectionErr, dials,
             launches, group, batches, reports>>

vars == <<totalViewers, d, mu, now, upc, utodo, ncalls, ucall, rpc, snap, slowMode,
          batchSize, noDashboard, cancelled, wg, mpc, mi, mj, pc, attempt,
          counter, chConn, connectionErr, dials, launches, group, batches,
          reports>>

Indices == 0 .. (MaxViewers - 1)

\* history: the status of an index never reported, and no call made yet
NoStatus == 0 - 1
NoCall ==
    [index |-> 0 - 1, status |-> NoStatus, attempts |-> 0, lastError |-> "",
     prev |-> NoStatus]

\* history: the group of an index no batch has launched
NoGroup == 0 - 1

\* ------------------------------------------------------------------------
\* Arithmetic helpers
\* ------------------------------------------------------------------------
RECURSIVE GCD(_, _)
GCD(a, b) == IF b = 0 THEN a ELSE GCD(b, a % b)

\* float64(connected) / float64(total) * 100 as an exact fraction
RateOf(connected, total) ==
    LET n == connected * 100
        g == GCD(n, total)
    IN  <<n \div g, total \div g>>

ZeroRate == <<0, 1>>

RECURSIVE SumAttempts(_, _)
SumAttempts(conns, keys) ==
    IF keys = {} THEN 0
    ELSE LET k == CHOOSE x \in keys : TRUE
         IN  conns[k].Attempts + SumAttempts(conns, keys \ {k})

CountStatus(conns, status) ==
    Cardinality({k \in DOMAIN conns : conns[k].Status = status})

\* ------------------------------------------------------------------------
\* Dashboard
\* ------------------------------------------------------------------------
EmptyConnections == [k \in {} |-> 0]

NewDashboard(totalConnections, channelName, channelID, t) ==
    [ Total         |-> totalConnections,
      Connecting    |-> 0,
      Connected     |-> 0,
      Retrying      |-> 0,
      Failed        |-> 0,
      TotalAttempts |-> 0,
      SuccessRate   |-> ZeroRate,
      StartTime     |-> t,
      LastUpdate    |-> 0,
      ChannelName   |-> channelName,
      ChannelID     |-> channelID,
      connections   |-> EmptyConnections ]

\* variant: an entry that is Failed is never replaced
NewInfoKeepsFailed(conns, index, status, attempts, lastError, t) ==
    IF index \in DOMAIN conns /\ conns[index].Status = StatusFailed
    THEN conns[index]
    ELSE [ Index       |-> index,
           Status      |-> status,
           Attempts    |-> attempts,
           LastError   |-> lastError,
           ConnectedAt |-> IF status = StatusConnected THEN t ELSE 0 ]

\* UpdateConnection, the ConnectionInfo it stores
NewInfo(conns, index, status, attempts, lastError, t) ==
    LET exists == index \in DOMAIN conns
        connectedAt ==
            IF status = StatusConnected
               /\ (~exists \/ conns[index].Status # StatusConnected)
            THEN t
            ELSE IF exists THEN conns[index].ConnectedAt ELSE 0
    IN  [ Index       |-> index,
          Status      |-> status,
          Attempts    |-> attempts,
          LastError   |-> lastError,
          ConnectedAt |-> connectedAt ]

\* variant: the map is replaced by one holding the new entry alone
StoreInfoAlone(s, index, info) ==
    [s EXCEPT !.connections = [k \in {index} |-> info]]

\* d.stats.connections[index] = info
StoreInfo(s, index, info) ==
    [s EXCEPT !.connections =
        [k \in DOMAIN s.connections \cup {index} |->
            IF k = index THEN info ELSE s.connections[k]]]

\* variant: the counters keep their values from the previous recalculation
ResetCountersKept(s) == s

\* recalculateStats: the five counters are set to zero
ResetCounters(s) ==
    [s EXCEPT !.Connecting = 0, !.Connected = 0, !.Retrying = 0,
              !.Failed = 0, !.TotalAttempts = 0]

\* variant: the switch has no case for StatusRetrying
CountOneNoRetrying(s, conn) ==
    LET a == [s EXCEPT !.TotalAttempts = @ + conn.Attempts]
    IN  CASE conn.Status = StatusConnecting -> [a EXCEPT !.Connecting = @ + 1]
          [] conn.Status = StatusConnected  -> [a EXCEPT !.Connected = @ + 1]
          [] conn.Status = StatusFailed     -> [a EXCEPT !.Failed = @ + 1]
          [] OTHER -> a

\* recalculateStats: one iteration of the range over the connections
CountOne(s, conn) ==
    LET a == [s EXCEPT !.TotalAttempts = @ + conn.Attempts]
    IN  CASE conn.Status = StatusConnecting -> [a EXCEPT !.Connecting = @ + 1]
          [] conn.Status = StatusConnected  -> [a EXCEPT !.Connected = @ + 1]
          [] conn.Status = StatusRetrying   -> [a EXCEPT !.Retrying = @ + 1]
          [] conn.Status = StatusFailed     -> [a EXCEPT !.Failed = @ + 1]
          [] OTHER -> a

\* variant: the rate is recomputed whatever TotalAttempts is
RateAndStampAlways(s, t) ==
    [s EXCEPT !.SuccessRate = RateOf(s.Connected, s.Total),
              !.LastUpdate = t]

\* recalculateStats: the success rate and LastUpdate
RateAndStamp(s, t) ==
    [s EXCEPT !.SuccessRate =
                  IF s.TotalAttempts > 0 THEN RateOf(s.Connected, s.Total) ELSE @,
              !.LastUpdate = t]

RECURSIVE CountAll(_, _)
CountAll(s, keys) ==
    IF keys = {} THEN s
    ELSE LET k == CHOOSE x \in keys : TRUE
         IN  CountAll(CountOne(s, s.connections[k]), keys \ {k})

\* recalculateStats as a whole, run with the lock held
recalculateStats(s, t) ==
    RateAndStamp(CountAll(ResetCounters(s), DOMAIN s.connections), t)

\* UpdateConnection as a whole, run with the lock held
UpdateConnection(s, index, status, attempts, lastError, t) ==
    recalculateStats(
        StoreInfo(s, index,
                  NewInfo(s.connections, index, status, attempts, lastError, t)),
        t)

\* GetStats: the fields copied before the map is
CopyFields(s) ==
    [ Total         |-> s.Total,
      Connecting    |-> s.Connecting,
      Connected     |-> s.Connected,
      Retrying      |-> s.Retrying,
      Failed        |-> s.Failed,
      TotalAttempts |-> s.TotalAttempts,
      SuccessRate   |-> s.SuccessRate,
      StartTime     |-> s.StartTime,
      LastUpdate    |-> s.LastUpdate,
      ChannelName   |-> s.ChannelName,
      ChannelID     |-> s.ChannelID,
      Connections   |-> EmptyConnections ]

\* GetStats: the range that copies the map
CopyConnections(sn, s) == [sn EXCEPT !.Connections = s.connections]

NoSnapshot == CopyFields(NewDashboard(0, "", 0, 0))

\* ------------------------------------------------------------------------
\* sync.RWMutex
\* ------------------------------------------------------------------------
\* writers: the goroutines inside Lock..Unlock (at most one for a mutex);
\* readers: those inside RLock..RUnlock
FreeMutex == [writers |-> {}, readers |-> {}]

\* variant: Lock never waits (UpdateConnection without the mutex)
CanLockAlways(m) == TRUE

\* variant: Lock waits for writers only, a reader does not hold it back
CanLockIgnoresReaders(m) == m.writers = {}

\* Lock returns only when no writer and no reader holds the mutex
CanLock(m) == m.writers = {} /\ m.readers = {}
\* RLock returns only when no writer holds the mutex
CanRLock(m) == m.writers = {}

\* ------------------------------------------------------------------------
\* Dashboard operations, step by step (callers are goroutines named by the
\* index they report for; the reader is the goroutine that calls GetStats)
\* ------------------------------------------------------------------------
Callers == 0 .. (totalViewers - 1)

\* UpdateConnection up to the store of the new ConnectionInfo
UC_Store(i, status, attempts, lastError) ==
    /\ upc[i] = "idle"
    /\ CanLock(mu)
    /\ mu' = [mu EXCEPT !.writers = @ \cup {i}]
    /\ d' = StoreInfo(d, i, NewInfo(d.connections, i, status, attempts, lastError, now))
    /\ upc' = [upc EXCEPT ![i] = "recalc"]
    /\ UNCHANGED <<totalViewers, now, utodo, ucall, rpc, snap, runVars>>

\* recalculateStats: counters zeroed, the range begins
RS_Reset(i) ==
    /\ upc[i] = "recalc"
    /\ d' = ResetCounters(d)
    /\ utodo' = [utodo EXCEPT ![i] = DOMAIN d.connections]
    /\ upc' = [upc EXCEPT ![i] = "range"]
    /\ UNCHANGED <<totalViewers, mu, now, ncalls, ucall, rpc, snap, runVars>>

\* recalculateStats: one iteration of the range (map order is unspecified)
RS_Range(i) ==
    /\ upc[i] = "range"
    /\ \E k \in utodo[i] :
        /\ d' = IF k \in DOMAIN d.connections THEN CountOne(d, d.connections[k]) ELSE d
        /\ utodo' = [utodo EXCEPT ![i] = @ \ {k}]
    /\ UNCHANGED <<totalViewers, mu, now, upc, ncalls, ucall, rpc, snap, runVars>>

\* the deferred Unlock
Unlock(m, i) == [m EXCEPT !.writers = @ \ {i}]

\* recalculateStats: rate and LastUpdate; UpdateConnection returns
RS_Finish(i) ==
    /\ upc[i] = "range"
    /\ utodo[i] = {}
    /\ d' = RateAndStamp(d, now)
    /\ mu' = Unlock(mu, i)
    /\ upc' = [upc EXCEPT ![i] = "idle"]
    /\ UNCHANGED <<totalViewers, now, utodo, ncalls, ucall, rpc, snap, runVars>>

\* GetStats: RLock and the copy of the scalar fields
GS_Fields ==
    /\ rpc = "idle"
    /\ CanRLock(mu)
    /\ mu' = [mu EXCEPT !.readers = @ \cup {"reader"}]
    /\ snap' = CopyFields(d)
    /\ rpc' = "fields"
    /\ UNCHANGED <<totalViewers, d, now, upc, utodo, ncalls, ucall, runVars>>

\* GetStats: the copy of the map
GS_Connections ==
    /\ rpc = "fields"
    /\ snap' = CopyConnections(snap, d)
    /\ rpc' = "copied"
    /\ UNCHANGED <<totalViewers, d, mu, now, upc, utodo, ncalls, ucall, runVars>>

\* GetStats: the deferred RUnlock and the return; the caller consumes the
\* snapshot at once
GS_Return ==
    /\ rpc = "copied"
    /\ mu' = [mu EXCEPT !.readers = @ \ {"reader"}]
    /\ rpc' = "idle"
    /\ snap' = NoSnapshot
    /\ UNCHANGED <<totalViewers, d, now, upc, utodo, ncalls, ucall, runVars>>

\* render, called by updateLoop on every tick: RLock after the screen is
\* cleared; everything from here to the deferred RUnlock is terminal output
Render_RLock ==
    /\ "render" \notin mu.readers
    /\ CanRLock(mu)
    /\ mu' = [mu EXCEPT !.readers = @ \cup {"render"}]
    /\ UNCHANGED <<totalViewers, d, now, upc, utodo, ncalls, ucall, rpc, snap,
                   runVars>>

\* render: the last line is printed, the deferred RUnlock runs
Render_RUnlock ==
    /\ "render" \in mu.readers
    /\ mu' = [mu EXCEPT !.readers = @ \ {"render"}]
    /\ UNCHANGED <<totalViewers, d, now, upc, utodo, ncalls, ucall, rpc, snap,
                   runVars>>

\* the holder h of the read lock is writing to the terminal
AtTerminalOutput(h) == h = "render"

\* ------------------------------------------------------------------------
\* SpecDash: the dashboard under concurrent callers passing any arguments
\* ------------------------------------------------------------------------
InitDash ==
    /\ totalViewers \in 1 .. MaxViewers
    /\ now = 1
    /\ d = NewDashboard(totalViewers, "channel", chChannelID, now)
    /\ mu = FreeMutex
    /\ upc = [i \in Indices |-> "idle"]
    /\ utodo = [i \in Indices |-> {}]
    /\ ncalls = [i \in Indices |-> 0]
    /\ ucall = NoCall
    /\ rpc = "idle"
    /\ snap = NoSnapshot
    /\ slowMode = FALSE
    /\ batchSize = 1
    /\ noDashboard = FALSE
    /\ cancelled = FALSE
    /\ wg = 0
    /\ mpc = "idle"
    /\ mi = 0
    /\ mj = 0
    /\ pc = [i \in Indices |-> "unborn"]
    /\ attempt = [i \in Indices |-> 0]
    /\ counter = [i \in Indices |-> 0]
    /\ chConn = [i \in Indices |-> "nil"]
    /\ connectionErr = [i \in Indices |-> ""]
    /\ dials = [i \in Indices |-> 0]
    /\ launches = [i \in Indices |-> 0]
    /\ group = [i \in Indices |-> NoGroup]
    /\ batches = 0
    /\ reports = [i \in Indices |-> <<>>]

Report(i) ==
    \E status \in Statuses, attempts \in AttemptsIn :
        \E lastError \in ErrorsIn(status) :
            /\ UC_Store(i, status, attempts, lastError)
            /\ UNCHANGED ncalls

NextDash ==
    \/ \E i \in Callers : Report(i)
    \/ \E i \in Callers : RS_Reset(i)
    \/ \E i \in Callers : RS_Range(i)
    \/ \E i \in Callers : RS_Finish(i)
    \/ GS_Fields
    \/ GS_Connections
    \/ GS_Return
    \/ Render_RLock
    \/ Render_RUnlock

SpecDash == InitDash /\ [][NextDash]_vars

\* ------------------------------------------------------------------------
\* The run: main, the ramp-up scheduler and the session tasks.
\* UpdateConnection and GetStats hold the mutex from their first to their
\* last statement, so in the run each call is one step.
\* ------------------------------------------------------------------------
defaultBatchSize == 100

\* GetStats as a whole, run with the read lock held
\* variant: the snapshot carries the time of the copy as LastUpdate
GetStatsStamped(s) ==
    [CopyConnections(CopyFields(s), s) EXCEPT !.LastUpdate = now]

GetStats(s) == CopyConnections(CopyFields(s), s)

\* the dashboard of a run without one (dash is nil)
NilDashboard == NewDashboard(0, "", 0, 0)

\* dash.UpdateConnection behind "!noDashboard && dash != nil"
Reported(s, index, status, attempts, lastError) ==
    IF noDashboard THEN s
    ELSE UpdateConnection(s, index, status, attempts, lastError, now)

\* history: the report Reported makes, appended to the log l of the reports
Logged(l, index, status, attempts) ==
    IF noDashboard THEN l
    ELSE [l EXCEPT ![index] = Append(@, <<status, attempts>>)]

\* variant: end is not cut down to totalViewers
BatchEndUnclamped(i) == i + batchSize

\* end of the batch that starts at i
BatchEnd(i) ==
    IF i + batchSize > totalViewers THEN totalViewers ELSE i + batchSize

InitRun ==
    /\ totalViewers \in 1 .. MaxViewers
    /\ slowMode \in BOOLEAN
    /\ batchSize \in (IF slowMode THEN 0 .. MaxBatchSize ELSE {defaultBatchSize})
    /\ noDashboard \in BOOLEAN
    /\ now = 1
    /\ d = IF noDashboard THEN NilDashboard
           ELSE NewDashboard(totalViewers, "channel", chChannelID, now)
    /\ mu = FreeMutex
    /\ upc = [i \in Indices |-> "idle"]
    /\ utodo = [i \in Indices |-> {}]
    /\ ncalls = [i \in Indices |-> 0]
    /\ ucall = NoCall
    /\ rpc = "idle"
    /\ snap = NoSnapshot
    /\ cancelled = FALSE
    /\ wg = 0
    /\ mpc = "schedule"
    /\ mi = 0
    /\ mj = 0
    /\ pc = [i \in Indices |-> "unborn"]
    /\ attempt = [i \in Indices |-> 0]
    /\ counter = [i \in Indices |-> 0]
    /\ chConn = [i \in Indices |-> "nil"]
    /\ connectionErr = [i \in Indices |-> ""]
    /\ dials = [i \in Indices |-> 0]
    /\ launches = [i \in Indices |-> 0]
    /\ group = [i \in Indices |-> NoGroup]
    /\ batches = 0
    /\ reports = [i \in Indices |-> <<>>]

\* ---- main ----

\* the goroutine waiting on sigChan: an interrupt arrives, cancel()
Signal ==
    /\ ~cancelled
    /\ mpc \notin {"done", "panic"}
    /\ cancelled' = TRUE
    /\ UNCHANGED <<cfgVars, dashVars, wg, mainVars, taskVars>>

\* variant: the goroutine is started without wg.Add(1)
LaunchNoAdd(j) ==
    /\ wg' = wg
    /\ pc' = [pc EXCEPT ![j] = "start"]
    /\ launches' = [launches EXCEPT ![j] = @ + 1]

\* wg.Add(1); go startConnection(ctx, wg, j, ...)
Launch(j) ==
    /\ wg' = wg + 1
    /\ pc' = [pc EXCEPT ![j] = "start"]
    /\ launches' = [launches EXCEPT ![j] = @ + 1]

\* the scheduler returns to main, which calls wg.Wait(); the locals i and j
\* are gone (zero)
SchedulerReturn ==
    /\ mpc' = "wgWait"
    /\ mi' = 0
    /\ mj' = 0

\* variant: the wait is made after the last batch too
AfterBatchAlwaysWaits(i) ==
    mpc' = "batchWait" /\ mi' = i /\ mj' = 0

\* startConnectionsInBatches: the batch at i is started; wait before the
\* next one unless this is the last (then i += batchSize ends the loop)
AfterBatch(i) ==
    IF BatchEnd(i) < totalViewers
    THEN mpc' = "batchWait" /\ mi' = i /\ mj' = 0
    ELSE SchedulerReturn

\* history: one more batch started (the count stops at MaxBatches, which
\* only a batch size of 0 can reach)
MaxBatches == MaxViewers + MaxTotalCount + 1
BatchStarted == IF batches < MaxBatches THEN batches + 1 ELSE batches

\* variant: the loop of startConnectionsInBatches without the check of
\* ctx.Done() at its head
NextBatchNoCheck(i) ==
    IF i < totalViewers
    THEN /\ batches' = BatchStarted
         /\ IF noDashboard /\ batchSize = 0
            THEN mpc' = "panic" /\ mi' = i /\ mj' = 0
            ELSE IF i < BatchEnd(i)
                 THEN mpc' = "batchLaunch" /\ mi' = i /\ mj' = i
                 ELSE AfterBatch(i)
    ELSE SchedulerReturn /\ UNCHANGED batches

\* startConnectionsInBatches: the head of the loop at i: the loop condition,
\* the cancellation check, the batch number logged without a dashboard
\* (i / batchSize panics when batchSize is 0), then the inner loop from j = i
NextBatch(i) ==
    IF i < totalViewers /\ ~cancelled
    THEN /\ batches' = BatchStarted
         /\ IF noDashboard /\ batchSize = 0
            THEN mpc' = "panic" /\ mi' = i /\ mj' = 0
            ELSE IF i < BatchEnd(i)
                 THEN mpc' = "batchLaunch" /\ mi' = i /\ mj' = i
                 ELSE AfterBatch(i)
    ELSE SchedulerReturn /\ UNCHANGED batches

\* main calls the scheduler of the chosen mode
Schedule ==
    /\ mpc = "schedule"
    /\ IF slowMode
       THEN NextBatch(0)
       ELSE /\ IF 0 < totalViewers
               THEN mpc' = "launchAll" /\ mi' = 0 /\ mj' = 0
               ELSE SchedulerReturn
            /\ UNCHANGED batches
    /\ UNCHANGED <<cfgVars, dashVars, cancelled, wg, taskVars, launches, group>>

\* startConnectionsInBatches: one iteration of the inner loop
BatchLaunch ==
    /\ mpc = "batchLaunch"
    /\ Launch(mj)
    /\ group' = [group EXCEPT ![mj] = batches - 1]
    /\ IF mj + 1 < BatchEnd(mi)
       THEN mj' = mj + 1 /\ UNCHANGED <<mpc, mi>>
       ELSE AfterBatch(mi)
    /\ UNCHANGED <<cfgVars, dashVars, cancelled, batches,
                   attempt, counter, chConn, connectionErr, dials, reports>>

\* variant: the next batch is started only when the tasks of the batches
\* before it have all returned
BatchTimerJoins ==
    /\ mpc = "batchWait"
    /\ wg = 0
    /\ NextBatch(mi + batchSize)
    /\ UNCHANGED <<cfgVars, dashVars, cancelled, wg, taskVars, launches, group>>

\* variant: the loop without i += batchSize
BatchTimerStays ==
    /\ mpc = "batchWait"
    /\ NextBatch(mi)
    /\ UNCHANGED <<cfgVars, dashVars, cancelled, wg, taskVars, launches, group>>

\* startConnectionsInBatches: select, case <-timer.C; i += batchSize
BatchTimer ==
    /\ mpc = "batchWait"
    /\ NextBatch(mi + batchSize)
    /\ UNCHANGED <<cfgVars, dashVars, cancelled, wg, taskVars, launches, group>>

\* startConnectionsInBatches: select, case <-ctx.Done(): return
BatchCancelled ==
    /\ mpc = "batchWait"
    /\ cancelled
    /\ SchedulerReturn
    /\ UNCHANGED <<cfgVars, dashVars, cancelled, wg, taskVars,
                   launches, group, batches>>

\* variant: the loop runs while i <= totalViewers
LaunchAllOneMore ==
    /\ mpc = "launchAll"
    /\ wg' = wg + 1
    /\ pc' = [pc EXCEPT ![mi] = "start"]
    /\ launches' = [launches EXCEPT ![mi] = @ + 1]
    /\ IF mi + 1 <= totalViewers
       THEN mi' = mi + 1 /\ UNCHANGED <<mpc, mj>>
       ELSE mpc' = "wgWait" /\ mi' = 0 /\ mj' = 0
    /\ UNCHANGED <<cfgVars, dashVars, cancelled, group, batches,
                   attempt, counter, chConn, connectionErr, dials, reports>>

\* startAllConnectionsSimultaneously: one iteration of the loop
LaunchAll ==
    /\ mpc = "launchAll"
    /\ Launch(mi)
    /\ IF mi + 1 < totalViewers
       THEN mi' = mi + 1 /\ UNCHANGED <<mpc, mj>>
       ELSE SchedulerReturn
    /\ UNCHANGED <<cfgVars, dashVars, cancelled, group, batches,
                   attempt, counter, chConn, connectionErr, dials, reports>>

\* wg.Wait() returns
WgWait ==
    /\ mpc = "wgWait"
    /\ wg = 0
    /\ mpc' = "summary"
    /\ UNCHANGED <<cfgVars, dashVars, cancelled, wg, mi, mj, taskVars,
                   launches, group, batches>>

\* the final summary
Summary ==
    /\ mpc = "summary"
    /\ snap' = IF noDashboard THEN snap ELSE GetStats(d)
    /\ mpc' = "exit"
    /\ UNCHANGED <<cfgVars, d, mu, now, upc, utodo, ncalls, ucall, rpc, cancelled, wg,
                   mi, mj, taskVars, launches, group, batches>>

\* main returns: the deferred cancel()
MainExit ==
    /\ mpc = "exit"
    /\ cancelled' = TRUE
    /\ mpc' = "done"
    /\ UNCHANGED <<cfgVars, dashVars, wg, mi, mj, taskVars,
                   launches, group, batches>>

\* ---- session task i: startConnection and the ConnectionHandler ----
\* A step runs the task from one blocking call or wait to the next: the
\* task is inside GetToken ("token"), inside connect ("dial"), in the retry
\* select ("backoff"), inside WriteJSON ("send"), in the keepalive select
\* ("keepwait") or between the two Failed reports of a send failure
\* ("result").  The locals of a function that has returned are zero.

\* variant: an error other than context.Canceled marks every session Failed
HandleResultFailsAll(s, index, e) ==
    IF e = "canceled" \/ noDashboard THEN s
    ELSE recalculateStats(
             [s EXCEPT !.connections =
                 [k \in DOMAIN s.connections \cup {index} |->
                     [ Index       |-> k,
                       Status      |-> StatusFailed,
                       Attempts    |-> 1,
                       LastError   |-> e,
                       ConnectedAt |-> 0 ]]],
             now)

\* variant: every error, context.Canceled included, is reported as Failed
HandleResultAlwaysFailed(s, index, e) ==
    Reported(s, index, StatusFailed, 1, e)

\* startConnection: the connection result
HandleResult(s, index, e) ==
    IF e = "canceled" THEN s
    ELSE Reported(s, index, StatusFailed, 1, e)

\* history: the report HandleResult makes, appended to the log l
ResultLogged(l, index, e) ==
    IF e = "canceled" THEN l
    ELSE Logged(l, index, StatusFailed, 1)

\* variant: an outer layer starts the session again when the retry budget
\* is exhausted
TaskReturnRetries(s, l, i, e) ==
    /\ d' = HandleResult(s, i, e)
    /\ reports' = ResultLogged(l, i, e)
    /\ connectionErr' = [connectionErr EXCEPT ![i] = e]
    /\ attempt' = [attempt EXCEPT ![i] = 0]
    /\ counter' = [counter EXCEPT ![i] = 0]
    /\ wg' = IF e = "exhausted" THEN wg ELSE wg - 1
    /\ pc' = [pc EXCEPT ![i] = IF e = "exhausted" THEN "start" ELSE "done"]

\* StartWithDashboard / Start has returned e with the dashboard at s (and
\* the log of the reports at l): the result is handled, startConnection
\* returns, the deferred wg.Done() runs
TaskReturn(s, l, i, e) ==
    /\ d' = HandleResult(s, i, e)
    /\ reports' = ResultLogged(l, i, e)
    /\ connectionErr' = [connectionErr EXCEPT ![i] = e]
    /\ attempt' = [attempt EXCEPT ![i] = 0]
    /\ counter' = [counter EXCEPT ![i] = 0]
    /\ wg' = wg - 1
    /\ pc' = [pc EXCEPT ![i] = "done"]

\* variant: one attempt more than maxRetries
MayAttemptOneMore(a) == a <= maxRetries + 1

\* the attempts allowed: "attempt <= maxRetries"
MayAttempt(a) == a <= maxRetries

\* StartWithDashboard / Start: the loop is at attempt a.  Either Connecting
\* is reported and connect() is called, or the loop is over
BeginAttempt(i, a) ==
    IF MayAttempt(a)
    THEN /\ d' = Reported(d, i, StatusConnecting, a, "")
         /\ reports' = Logged(reports, i, StatusConnecting, a)
         /\ attempt' = [attempt EXCEPT ![i] = a]
         /\ pc' = [pc EXCEPT ![i] = "dial"]
         /\ UNCHANGED <<connectionErr, counter, wg>>
    ELSE TaskReturn(d, reports, i, "exhausted")

\* messageLoop: the message of the iteration whose counter is c
Message(c) ==
    IF c % 2 = 0
    THEN [Type |-> "ping", Data |-> <<>>]
    ELSE [Type |-> "channel_handshake", Data |-> <<chChannelID>>]

\* variant: messageLoop without counter++
BeginSendNoCount(s, l, i, c) ==
    IF cancelled
    THEN /\ chConn' = [chConn EXCEPT ![i] = "closed"]
         /\ TaskReturn(s, l, i, "canceled")
    ELSE /\ d' = s
         /\ reports' = l
         /\ chConn' = [chConn EXCEPT ![i] = "open"]
         /\ counter' = [counter EXCEPT ![i] = c]
         /\ pc' = [pc EXCEPT ![i] = "send"]
         /\ UNCHANGED <<wg, attempt, connectionErr>>

\* variant: messageLoop without the select on ctx.Done() at the top of the loop
BeginSendNoCheck(s, l, i, c) ==
    /\ d' = s
    /\ reports' = l
    /\ chConn' = [chConn EXCEPT ![i] = "open"]
    /\ counter' = [counter EXCEPT ![i] = (c + 1) % 2]
    /\ pc' = [pc EXCEPT ![i] = "send"]
    /\ UNCHANGED <<wg, attempt, connectionErr>>

\* messageLoop: the select at the top of the loop with ch.conn open, the
\* counter at c and the dashboard at s (the log of the reports at l).  Either
\* the loop returns ctx.Err() and the deferred Close runs, or counter++ and
\* WriteJSON is called
BeginSend(s, l, i, c) ==
    IF cancelled
    THEN /\ chConn' = [chConn EXCEPT ![i] = "closed"]
         /\ TaskReturn(s, l, i, "canceled")
    ELSE /\ d' = s
         /\ reports' = l
         /\ chConn' = [chConn EXCEPT ![i] = "open"]
         /\ counter' = [counter EXCEPT ![i] = (c + 1) % 2]
         /\ pc' = [pc EXCEPT ![i] = "send"]
         /\ UNCHANGED <<wg, attempt, connectionErr>>

\* variant: startConnection calls GetToken without the initial report
TaskStartNoReport(i) ==
    /\ pc[i] = "start"
    /\ pc' = [pc EXCEPT ![i] = "token"]
    /\ UNCHANGED <<cfgVars, dashVars, cancelled, wg, mainVars, attempt, counter,
                   chConn, connectionErr, dials, reports>>

\* startConnection: the initial report, then GetToken is called
TaskStart(i) ==
    /\ pc[i] = "start"
    /\ d' = Reported(d, i, StatusConnecting, 1, "")
    /\ reports' = Logged(reports, i, StatusConnecting, 1)
    /\ pc' = [pc EXCEPT ![i] = "token"]
    /\ UNCHANGED <<cfgVars, mu, now, upc, utodo, ncalls, ucall, rpc, snap, cancelled,
                   wg, mainVars, attempt, counter, chConn, connectionErr, dials>>

\* GetToken returns a token: the handler is created and started
TokenOk(i) ==
    /\ pc[i] = "token"
    /\ BeginAttempt(i, 1)
    /\ UNCHANGED <<cfgVars, mu, now, upc, utodo, ncalls, ucall, rpc, snap, cancelled,
                   mainVars, chConn, dials>>

\* GetToken returns an error: Failed is reported, startConnection returns
TokenFail(i) ==
    /\ pc[i] = "token"
    /\ d' = Reported(d, i, StatusFailed, 1, "token")
    /\ reports' = Logged(reports, i, StatusFailed, 1)
    /\ wg' = wg - 1
    /\ pc' = [pc EXCEPT ![i] = "done"]
    /\ UNCHANGED <<cfgVars, mu, now, upc, utodo, ncalls, ucall, rpc, snap, cancelled,
                   mainVars, attempt, counter, chConn, connectionErr, dials>>

\* connect() succeeds: ch.conn is set, Connected is reported, messageLoop
\* begins
DialOk(i) ==
    /\ pc[i] = "dial"
    /\ dials' = [dials EXCEPT ![i] = @ + 1]
    /\ BeginSend(Reported(d, i, StatusConnected, attempt[i], ""),
                 Logged(reports, i, StatusConnected, attempt[i]), i, 0)
    /\ UNCHANGED <<cfgVars, mu, now, upc, utodo, ncalls, ucall, rpc, snap, cancelled,
                   mainVars>>

\* connect() fails: Retrying is reported, the retry wait begins
DialFail(i) ==
    /\ pc[i] = "dial"
    /\ dials' = [dials EXCEPT ![i] = @ + 1]
    /\ d' = Reported(d, i, StatusRetrying, attempt[i], "dial")
    /\ reports' = Logged(reports, i, StatusRetrying, attempt[i])
    /\ pc' = [pc EXCEPT ![i] = "backoff"]
    /\ UNCHANGED <<cfgVars, mu, now, upc, utodo, ncalls, ucall, rpc, snap, cancelled,
                   wg, mainVars, attempt, counter, chConn, connectionErr>>

\* the retry select, case <-time.After(retryDelay): continue
BackoffTimer(i) ==
    /\ pc[i] = "backoff"
    /\ BeginAttempt(i, attempt[i] + 1)
    /\ UNCHANGED <<cfgVars, mu, now, upc, utodo, ncalls, ucall, rpc, snap, cancelled,
                   mainVars, chConn, dials>>

\* the retry select, case <-ctx.Done(): return ctx.Err()
BackoffCancelled(i) ==
    /\ pc[i] = "backoff"
    /\ cancelled
    /\ TaskReturn(d, reports, i, "canceled")
    /\ UNCHANGED <<cfgVars, mu, now, upc, utodo, ncalls, ucall, rpc, snap, cancelled,
                   mainVars, chConn, dials>>

\* WriteJSON succeeds: the keepalive wait begins
SendOk(i) ==
    /\ pc[i] = "send"
    /\ pc' = [pc EXCEPT ![i] = "keepwait"]
    /\ UNCHANGED <<cfgVars, dashVars, cancelled, wg, mainVars,
                   attempt, counter, chConn, connectionErr, dials, reports>>

\* variant: a failed WriteJSON sends the session back to the retry wait
SendFailReconnects(i) ==
    /\ pc[i] = "send"
    /\ d' = Reported(d, i, StatusFailed, 1, "send")
    /\ reports' = Logged(reports, i, StatusFailed, 1)
    /\ connectionErr' = [connectionErr EXCEPT ![i] = "send"]
    /\ chConn' = [chConn EXCEPT ![i] = "closed"]
    /\ attempt' = [attempt EXCEPT ![i] = 0]
    /\ counter' = [counter EXCEPT ![i] = 0]
    /\ pc' = [pc EXCEPT ![i] = "backoff"]
    /\ UNCHANGED <<cfgVars, mu, now, upc, utodo, ncalls, ucall, rpc, snap, cancelled,
                   wg, mainVars, dials>>

\* WriteJSON fails: Failed is reported, messageLoop returns the error and the
\* deferred Close runs
SendFail(i) ==
    /\ pc[i] = "send"
    /\ d' = Reported(d, i, StatusFailed, 1, "send")
    /\ reports' = Logged(reports, i, StatusFailed, 1)
    /\ connectionErr' = [connectionErr EXCEPT ![i] = "send"]
    /\ chConn' = [chConn EXCEPT ![i] = "closed"]
    /\ attempt' = [attempt EXCEPT ![i] = 0]
    /\ counter' = [counter EXCEPT ![i] = 0]
    /\ pc' = [pc EXCEPT ![i] = "result"]
    /\ UNCHANGED <<cfgVars, mu, now, upc, utodo, ncalls, ucall, rpc, snap, cancelled,
                   wg, mainVars, dials>>

\* the keepalive select, case <-time.After(delay): the next iteration
KeepTimer(i) ==
    /\ pc[i] = "keepwait"
    /\ BeginSend(d, reports, i, counter[i])
    /\ UNCHANGED <<cfgVars, mu, now, upc, utodo, ncalls, ucall, rpc, snap, cancelled,
                   mainVars, dials>>

\* variant: messageLoop returns without the deferred Close
KeepCancelledNoClose(i) ==
    /\ pc[i] = "keepwait"
    /\ cancelled
    /\ chConn' = chConn
    /\ TaskReturn(d, reports, i, "canceled")
    /\ UNCHANGED <<cfgVars, mu, now, upc, utodo, ncalls, ucall, rpc, snap, cancelled,
                   mainVars, dials>>

\* the keepalive select, case <-ctx.Done(): return ctx.Err()
KeepCancelled(i) ==
    /\ pc[i] = "keepwait"
    /\ cancelled
    /\ chConn' = [chConn EXCEPT ![i] = "closed"]
    /\ TaskReturn(d, reports, i, "canceled")
    /\ UNCHANGED <<cfgVars, mu, now, upc, utodo, ncalls, ucall, rpc, snap, cancelled,
                   mainVars, dials>>

\* startConnection handles the error of a failed send
TaskResult(i) ==
    /\ pc[i] = "result"
    /\ TaskReturn(d, reports, i, connectionErr[i])
    /\ UNCHANGED <<cfgVars, mu, now, upc, utodo, ncalls, ucall, rpc, snap, cancelled,
                   mainVars, chConn, dials>>

TaskStep(i) ==
    \/ TaskStart(i)
    \/ TokenOk(i)
    \/ TokenFail(i)
    \/ DialOk(i)
    \/ DialFail(i)
    \/ BackoffTimer(i)
    \/ BackoffCancelled(i)
    \/ SendOk(i)
    \/ SendFail(i)
    \/ KeepTimer(i)
    \/ KeepCancelled(i)
    \/ TaskResult(i)

MainStep ==
    \/ Schedule
    \/ BatchLaunch
    \/ BatchTimer
    \/ BatchCancelled
    \/ LaunchAll
    \/ WgWait
    \/ Summary
    \/ MainExit

Next ==
    \/ Signal
    \/ Schedule
    \/ BatchLaunch
    \/ BatchTimer
    \/ BatchCancelled
    \/ LaunchAll
    \/ WgWait
    \/ Summary
    \/ MainExit
    \/ \E i \in Callers : TaskStart(i)
    \/ \E i \in Callers : TokenOk(i)
    \/ \E i \in Callers : TokenFail(i)
    \/ \E i \in Callers : DialOk(i)
    \/ \E i \in Callers : DialFail(i)
    \/ \E i \in Callers : BackoffTimer(i)
    \/ \E i \in Callers : BackoffCancelled(i)
    \/ \E i \in Callers : SendOk(i)
    \/ \E i \in Callers : SendFail(i)
    \/ \E i \in Callers : KeepTimer(i)
    \/ \E i \in Callers : KeepCancelled(i)
    \/ \E i \in Callers : TaskResult(i)

Spec == InitRun /\ [][Next]_vars

\* the fairness of the Go scheduler: main and every session task that can
\* take a step eventually takes one (external calls return, timers fire)
SpecFair ==
    /\ Spec
    /\ WF_vars(MainStep)
    /\ \A i \in Indices : WF_vars(TaskStep(i))

\* ------------------------------------------------------------------------
\* SpecSched: the ramp-up scheduler taken alone, from the call by main to its
\* return, for larger counts than a full run is explored with.  The session
\* tasks it starts do not run
\* ------------------------------------------------------------------------
SchedIndices == 0 .. (MaxTotalCount - 1)

InitSched ==
    /\ totalViewers \in 1 .. MaxTotalCount
    /\ slowMode \in BOOLEAN
    /\ batchSize \in (IF slowMode THEN 0 .. MaxGroupSize ELSE {defaultBatchSize})
    /\ noDashboard \in BOOLEAN
    /\ now = 1
    /\ d = IF noDashboard THEN NilDashboard
           ELSE NewDashboard(totalViewers, "channel", chChannelID, now)
    /\ mu = FreeMutex
    /\ upc = [i \in SchedIndices |-> "idle"]
    /\ utodo = [i \in SchedIndices |-> {}]
    /\ ncalls = [i \in SchedIndices |-> 0]
    /\ ucall = NoCall
    /\ rpc = "idle"
    /\ snap = NoSnapshot
    /\ cancelled = FALSE
    /\ wg = 0
    /\ mpc = "schedule"
    /\ mi = 0
    /\ mj = 0
    /\ pc = [i \in SchedIndices |-> "unborn"]
    /\ attempt = [i \in SchedIndices |-> 0]
    /\ counter = [i \in SchedIndices |-> 0]
    /\ chConn = [i \in SchedIndices |-> "nil"]
    /\ connectionErr = [i \in SchedIndices |-> ""]
    /\ dials = [i \in SchedIndices |-> 0]
    /\ launches = [i \in SchedIndices |-> 0]
    /\ group = [i \in SchedIndices |-> NoGroup]
    /\ batches = 0
    /\ reports = [i \in SchedIndices |-> <<>>]

NextSched ==
    \/ Signal
    \/ Schedule
    \/ BatchLaunch
    \/ BatchTimer
    \/ BatchCancelled
    \/ LaunchAll

SpecSched == InitSched /\ [][NextSched]_vars

\* ------------------------------------------------------------------------
\* SpecOnce: the race test.  Every caller reports Connected exactly once,
\* with the attempt number of the successful dial, while a reader takes
\* snapshots
\* ------------------------------------------------------------------------
ReportOnce(i) ==
    /\ ncalls[i] = 0
    /\ \E a \in 1 .. maxRetries : UC_Store(i, StatusConnected, a, "")
    /\ ncalls' = [ncalls EXCEPT ![i] = 1]

NextOnce ==
    \/ \E i \in Callers : ReportOnce(i)
    \/ \E i \in Callers : RS_Reset(i)
    \/ \E i \in Callers : RS_Range(i)
    \/ \E i \in Callers : RS_Finish(i)
    \/ GS_Fields
    \/ GS_Connections
    \/ GS_Return

SpecOnce == InitDash /\ [][NextOnce]_vars

\* ------------------------------------------------------------------------
\* SpecApi: the dashboard called in sequence, each call run to its end, with
\* a clock that advances between calls.  snap is the snapshot the latest
\* GetStats returned, as long as no UpdateConnection has been called since
\* ------------------------------------------------------------------------
ApiUpdate(i, status, attempts, lastError) ==
    /\ d' = UpdateConnection(d, i, status, attempts, lastError, now)
    /\ ucall' = [index |-> i, status |-> status, attempts |-> attempts,
                 lastError |-> lastError,
                 prev |-> IF i \in DOMAIN d.connections
                          THEN d.connections[i].Status ELSE NoStatus]
    /\ snap' = NoSnapshot
    /\ UNCHANGED <<totalViewers, mu, now, upc, utodo, ncalls, rpc, runVars>>

ApiGetStats ==
    /\ snap' = GetStats(d)
    /\ UNCHANGED <<totalViewers, d, mu, now, upc, utodo, ncalls, ucall, rpc,
                   runVars>>

\* time passes
ApiTick ==
    /\ now < MaxTime
    /\ now' = now + 1
    /\ UNCHANGED <<totalViewers, d, mu, upc, utodo, ncalls, ucall, rpc, snap,
                   runVars>>

NextApi ==
    \/ \E i \in Callers, status \in Statuses, attempts \in AttemptsIn :
          \E lastError \in ErrorsIn(status) :
              ApiUpdate(i, status, attempts, lastError)
    \/ ApiGetStats
    \/ ApiTick

\* a dashboard for two connections: one index to write, one to leave alone
InitApi ==
    /\ InitDash
    /\ totalViewers = 2

SpecApi == InitApi /\ [][NextApi]_vars

\* ========================================================================
\* Properties
\* ========================================================================
\* no UpdateConnection call is in progress
Quiescent == \A i \in Indices : upc[i] = "idle"

\* the four per-status counters of a ConnectionStats or a StatsSnapshot
StatusSum(s) == s.Connecting + s.Connected + s.Retrying + s.Failed

\* the counters of s are what a count over the per-index records conns gives
CountersMatch(s, conns) ==
    /\ s.Connecting = CountStatus(conns, StatusConnecting)
    /\ s.Connected = CountStatus(conns, StatusConnected)
    /\ s.Retrying = CountStatus(conns, StatusRetrying)
    /\ s.Failed = CountStatus(conns, StatusFailed)
    /\ StatusSum(s) = Cardinality(DOMAIN conns)
    /\ s.TotalAttempts = SumAttempts(conns, DOMAIN conns)

\* C1: no lost updates.  When each of the N callers, one per distinct
\* index, has called UpdateConnection exactly once with Connected and every
\* call has returned, Connected is N and the map holds one entry per index.
C1_NoLostUpdates ==
    (Quiescent /\ \A i \in Callers : ncalls[i] = 1)
        => /\ d.Connected = totalViewers
           /\ DOMAIN d.connections = Callers
           /\ \A i \in Callers : d.connections[i].Status = StatusConnected

\* C1 happens: two callers have both reported and both are counted
C1_Witness ==
    /\ totalViewers = 2
    /\ Quiescent
    /\ \A i \in Callers : ncalls[i] = 1
    /\ d.Connected = 2
    /\ Cardinality(DOMAIN d.connections) = 2

\* C2: in a run with a dashboard Connecting + Connected + Retrying + Failed
\* never exceeds Total, and equals Total once every one of the Total session
\* tasks has reported at least once.
C2_SumBoundedByTotal ==
    ~noDashboard =>
        /\ StatusSum(d) <= d.Total
        /\ (DOMAIN d.connections = 0 .. (d.Total - 1)) => StatusSum(d) = d.Total

\* C2 happens: both tasks of a run of two have reported, one is connected
\* and one has failed
C2_Witness ==
    /\ ~noDashboard
    /\ d.Total = 2
    /\ DOMAIN d.connections = {0, 1}
    /\ d.Connected = 1
    /\ d.Failed = 1
    /\ StatusSum(d) = 2

\* C3: after every UpdateConnection (no call in progress) each per-status
\* counter is the number of records with that status, the four counters sum
\* to the number of indices ever reported, and TotalAttempts is the sum of
\* the records' Attempts.
C3_CountersAreCounts == Quiescent => CountersMatch(d, d.connections)

\* C3 happens: two records of different statuses, one overwritten record
C3_Witness ==
    /\ Quiescent
    /\ Cardinality(DOMAIN d.connections) = 2
    /\ d.Failed = 1
    /\ d.Retrying = 1
    /\ d.TotalAttempts = 1

\* C4 as stated: at every snapshot SuccessRate is 100 * Connected / Total,
\* reports with attempts 0 included, and it is 0 while no attempt is recorded.
C4_RateAlwaysFollows ==
    Quiescent => /\ d.SuccessRate = RateOf(d.Connected, d.Total)
                 /\ d.TotalAttempts = 0 => d.SuccessRate = ZeroRate

\* C4, amended: once an UpdateConnection has returned, SuccessRate is
\* 100 * Connected / Total whenever TotalAttempts is positive; a
\* recalculation that finds TotalAttempts = 0 leaves SuccessRate as it was
\* (so it is 0 until a report with attempts > 0 has been recorded).
C4_RateFollowsWhenAttempts ==
    [][ Quiescent' =>
          /\ d'.TotalAttempts > 0 => d'.SuccessRate = RateOf(d'.Connected, d'.Total)
          /\ d'.TotalAttempts = 0 => d'.SuccessRate = d.SuccessRate ]_vars

\* C4 happens: a rate of 50 computed from recorded attempts is still there
\* after a report that brought TotalAttempts back to 0
C4_Witness ==
    /\ Quiescent
    /\ d.TotalAttempts = 0
    /\ d.Connected = 0
    /\ d.SuccessRate = <<50, 1>>

\* C5: a snapshot GetStats returns while UpdateConnection calls are under
\* way is never partial: it is the aggregator's state as some completed
\* UpdateConnection left it, its counters are the counts of its own map, and
\* no writer is inside the lock while the copy is made.
C5_SnapshotAtomic ==
    (rpc = "copied") =>
        /\ snap = CopyConnections(CopyFields(d), d)
        /\ CountersMatch(snap, snap.Connections)
        /\ mu.writers = {}

\* C5 happens: a snapshot of two records taken between updates
C5_Witness ==
    /\ rpc = "copied"
    /\ Cardinality(DOMAIN snap.Connections) = 2
    /\ snap.Connected = 1
    /\ snap.Retrying = 1
    /\ snap.LastUpdate > 0

\* session task i has returned because it observed the cancellation
CancelExit(i) == pc[i] = "done" /\ connectionErr[i] = "canceled"

\* C6: a session task never dials more than maxRetries (5) times, and a task
\* whose dials all failed and that did not exit on cancellation has dialled
\* exactly 5 times and is recorded Failed.
C6_AtMostFiveDials ==
    \A i \in Indices :
        /\ dials[i] <= maxRetries
        /\ (pc[i] = "done" /\ dials[i] >= 1 /\ chConn[i] = "nil" /\ ~CancelExit(i))
              => /\ dials[i] = maxRetries
                 /\ connectionErr[i] = "exhausted"
                 /\ ~noDashboard => d.connections[i].Status = StatusFailed

\* C6 happens: a task has failed five dials with no cancellation at all
C6_Witness ==
    \E i \in Callers :
        /\ ~cancelled
        /\ ~noDashboard
        /\ pc[i] = "done"
        /\ dials[i] = maxRetries
        /\ chConn[i] = "nil"
        /\ d.connections[i].Status = StatusFailed

\* C7: after the fifth failed dial the task goes to Failed directly: it is
\* not in the retry wait and it is not recorded Retrying.
C7_FailedWithoutRetrying ==
    \A i \in Indices :
        (dials[i] = maxRetries /\ chConn[i] = "nil")
            => /\ pc[i] # "backoff"
               /\ (~noDashboard /\ i \in DOMAIN d.connections)
                     => d.connections[i].Status # StatusRetrying

\* C8: the step by which a session task exits on cancellation reports no
\* Failed: the Failed counter is as before and the task's record is not Failed.
C8_CancelExitNotFailed ==
    [][ \A i \in Indices :
          (~CancelExit(i) /\ CancelExit(i)')
              => /\ d'.Failed = d.Failed
                 /\ (i \in DOMAIN d'.connections)
                       => d'.connections[i].Status # StatusFailed ]_vars

\* C8 happens: a task has exited on cancellation in a run with a dashboard
\* where another task has failed
C8_Witness ==
    /\ ~noDashboard
    /\ d.Failed = 1
    /\ \E i \in Callers :
        /\ CancelExit(i)
        /\ d.connections[i].Status # StatusFailed

C10_ShutdownCompletes ==
    cancelled ~> (/\ mpc \in {"summary", "exit", "done"}
                  /\ wg = 0
                  /\ \A i \in Indices : pc[i] \in {"unborn", "done"})

\* C10 happens: the interrupt came while one task was in the retry wait and
\* one in the message loop, and wg.Wait() has returned
C10_Witness ==
    /\ mpc = "summary"
    /\ cancelled
    /\ \E i \in Callers : CancelExit(i) /\ chConn[i] = "nil" /\ dials[i] >= 1
    /\ \E i \in Callers : CancelExit(i) /\ chConn[i] = "closed"

\* wg.Wait() has returned
Joined == mpc \in {"summary", "exit", "done"}

\* C11: the join barrier.  The WaitGroup counter is the number of session
\* tasks launched and not yet returned, and once wg.Wait() has returned
\* every task launched has returned, whatever its outcome, and no task is
\* launched any more.
C11_JoinBarrier ==
    /\ wg = Cardinality({i \in Indices : pc[i] \notin {"unborn", "done"}})
    /\ \A i \in Indices : (launches[i] = 0) <=> (pc[i] = "unborn")
    /\ Joined => /\ wg = 0
                 /\ \A i \in Indices : pc[i] \in {"unborn", "done"}

\* C11 happens: wg.Wait() has returned after one task failed and one exited
\* on cancellation
C11_Witness ==
    /\ Joined
    /\ \E i \in Callers : pc[i] = "done" /\ connectionErr[i] = "exhausted"
    /\ \E i \in Callers : CancelExit(i)

\* C12: batched mode.  If cancellation has been signalled while the
\* scheduler is in the wait between two batches, the scheduler starts no
\* further task (nor does anything after it has returned), and every task
\* already launched returns and wg.Wait() returns.
C12_NoBatchAfterCancel ==
    /\ [][ ((cancelled /\ mpc = "batchWait") \/ mpc = "wgWait" \/ Joined)
              => (launches' = launches /\ mpc' # "batchLaunch") ]_vars
    /\ (cancelled /\ mpc = "batchWait")
          ~> (Joined /\ \A i \in Indices : pc[i] \in {"unborn", "done"})

\* C12 happens: with batches of one, the first task was launched, the
\* interrupt came during the wait, the second task was never launched and
\* wg.Wait() has returned
C12_Witness ==
    /\ slowMode
    /\ batchSize = 1
    /\ totalViewers = 2
    /\ cancelled
    /\ mpc = "summary"
    /\ launches[0] = 1
    /\ pc[0] = "done"
    /\ launches[1] = 0

\* C13: batched mode, batchSize > 0.  No index is launched twice and none
\* outside 0 .. totalViewers - 1, an index launched by batch k lies in
\* k*batchSize up to but excluding min((k+1)*batchSize, totalViewers); and
\* when the scheduler returns without cancellation it has started
\* ceil(totalViewers / batchSize) batches and launched every index once.
C13_BatchBoundaries ==
    (slowMode /\ batchSize > 0) =>
        /\ \A i \in DOMAIN launches :
              /\ launches[i] <= 1
              /\ launches[i] = 1 =>
                    /\ i < totalViewers
                    /\ group[i] * batchSize <= i
                    /\ i < (group[i] + 1) * batchSize
        /\ (mpc = "wgWait" /\ ~cancelled) =>
              /\ batches = (totalViewers + batchSize - 1) \div batchSize
              /\ \A i \in Callers : launches[i] = 1

\* C13 happens: 7 viewers in batches of 3 gave batches of sizes 3, 3, 1
C13_Witness ==
    /\ slowMode
    /\ totalViewers = 7
    /\ batchSize = 3
    /\ ~cancelled
    /\ mpc = "wgWait"
    /\ batches = 3
    /\ {i \in Callers : group[i] = 0} = {0, 1, 2}
    /\ {i \in Callers : group[i] = 1} = {3, 4, 5}
    /\ {i \in Callers : group[i] = 2} = {6}

\* C14: immediate mode.  The scheduler never waits and starts no batch; it
\* launches the indices in order, none twice and none outside
\* 0 .. totalViewers - 1, and has launched every one of them when it returns.
C14_ImmediateLaunchesAll ==
    ~slowMode =>
        /\ mpc \notin {"batchWait", "batchLaunch"}
        /\ batches = 0
        /\ \A i \in DOMAIN launches :
              /\ launches[i] <= 1
              /\ launches[i] = 1 => i < totalViewers
              /\ mpc = "launchAll" => (launches[i] = 1 <=> i < mi)
        /\ mpc = "wgWait" => \A i \in Callers : launches[i] = 1

\* C14 happens: seven tasks launched, the scheduler has returned
C14_Witness ==
    /\ ~slowMode
    /\ totalViewers = 7
    /\ mpc = "wgWait"
    /\ \A i \in Callers : launches[i] = 1 /\ pc[i] = "start"

\* C15: in either mode a scheduler that is called when cancellation has
\* already been signalled returns without entering its launch loop, so that
\* no task is launched.
C15_SchedulerHonoursCancel ==
    [][ (cancelled /\ mpc = "schedule")
           => (mpc' \in {"schedule", "wgWait"} /\ launches' = launches) ]_vars

\* C16: a session task that comes to the point of calling connect() or
\* WriteJSON when cancellation has already been signalled does not make the
\* call.
C16_CancelCheckedBeforeAttempt ==
    [][ \A i \in Indices :
          cancelled =>
              /\ pc[i] # "dial" => pc'[i] # "dial"
              /\ pc[i] # "send" => pc'[i] # "send" ]_vars

\* C17: a wait that ends with cancellation signalled ends by the
\* cancellation branch: the scheduler returns from the wait between batches,
\* and a session task in the retry wait or the keepalive wait returns the
\* cancellation error.
C17_CancelPreferred ==
    [][ /\ (cancelled /\ mpc = "batchWait") => mpc' \in {"batchWait", "wgWait"}
        /\ \A i \in Indices :
              (cancelled /\ pc[i] \in {"backoff", "keepwait"})
                  => (pc'[i] = pc[i] \/ CancelExit(i)') ]_vars

\* C18: a session task whose credential acquisition (GetToken, which picks
\* the proxy) fails is sent to Retrying with one attempt of its budget used,
\* not to Failed and not to its end.
C18_TokenFailureRetried ==
    [][ \A i \in Indices :
          (pc[i] = "token" /\ pc'[i] # "token")
              => \/ pc'[i] = "dial"
                 \/ /\ pc'[i] = "backoff"
                    /\ ~noDashboard => d'.connections[i].Status = StatusRetrying ]_vars

\* session task i has had a WriteJSON fail in the message loop
SendFailed(i) == connectionErr[i] = "send"

\* C19: a session whose send failed in the message loop is recorded Failed,
\* its task is on its way out (it dials and sends no more, its connection is
\* closed), and it did not exit on cancellation and is not recorded as the
\* sessions that exit on cancellation are.
C19_SendFailureIsFailed ==
    \A i \in Indices :
        SendFailed(i) =>
            /\ pc[i] \in {"result", "done"}
            /\ chConn[i] = "closed"
            /\ dials[i] >= 1
            /\ ~CancelExit(i)
            /\ ~noDashboard =>
                  /\ d.connections[i].Status = StatusFailed
                  /\ d.Failed >= 1
                  /\ reports[i][Len(reports[i])][1] = StatusFailed
                  /\ reports[i][Len(reports[i]) - 1][1] \in {StatusConnected, StatusFailed}

\* C19 happens: one session ended on a failed send and is Failed, another
\* ended on cancellation and is still Connected
C19_Witness ==
    /\ ~noDashboard
    /\ \E i \in Callers :
          /\ SendFailed(i)
          /\ pc[i] = "done"
          /\ d.connections[i].Status = StatusFailed
    /\ \E i \in Callers :
          /\ CancelExit(i)
          /\ d.connections[i].Status = StatusConnected

\* session task i has used up its retry budget
Exhausted(i) == connectionErr[i] = "exhausted"

\* history: the Failed reports made for index i
FailedReports(i) ==
    Cardinality({k \in 1 .. Len(reports[i]) : reports[i][k][1] = StatusFailed})

\* C20: a session that exhausts its retry budget has dialled maxRetries
\* times, has had Failed reported exactly once, as its last report, and has
\* ended: from then on no dial and no report is made for its index.
C20_ExhaustedFailedOnce ==
    [][ \A i \in Indices :
          /\ Exhausted(i)' =>
                /\ pc'[i] = "done"
                /\ dials'[i] = maxRetries
                /\ ~noDashboard =>
                      /\ FailedReports(i)' = 1
                      /\ reports'[i][Len(reports'[i])] = <<StatusFailed, 1>>
                      /\ d'.connections[i].Status = StatusFailed
          /\ Exhausted(i) =>
                /\ dials'[i] = dials[i]
                /\ reports'[i] = reports[i]
                /\ ~noDashboard => d'.connections[i] = d.connections[i] ]_vars

\* C20 happens: a session has exhausted its budget and the run went on
\* until wg.Wait() returned
C20_Witness ==
    /\ ~noDashboard
    /\ Joined
    /\ \E i \in Callers :
          /\ Exhausted(i)
          /\ FailedReports(i) = 1
          /\ Len(reports[i]) = 2 * maxRetries + 2
          /\ d.connections[i].Status = StatusFailed

\* the step by which session task i fails: the token is refused, the retry
\* budget is exhausted, a send fails, or the failed send is handled
FailStep(i) ==
    /\ pc'[i] # pc[i]
    /\ pc'[i] \in {"result", "done"}
    /\ ~CancelExit(i)'

\* C21: error containment.  The step by which a session fails leaves every
\* other session task and every other entry of the dashboard as they were,
\* does not signal cancellation and leaves the scheduler where it was, free
\* to launch the sessions that remain.
C21_FailureContained ==
    [][ \A i \in Indices :
          FailStep(i) =>
              /\ cancelled' = cancelled
              /\ <<mpc, mi, mj, launches, group, batches>>'
                    = <<mpc, mi, mj, launches, group, batches>>
              /\ \A j \in Indices \ {i} :
                    /\ <<pc[j], attempt[j], counter[j], chConn[j],
                         connectionErr[j], dials[j], reports[j]>>'
                          = <<pc[j], attempt[j], counter[j], chConn[j],
                              connectionErr[j], dials[j], reports[j]>>
                    /\ j \in DOMAIN d.connections
                          => /\ j \in DOMAIN d'.connections
                             /\ d'.connections[j] = d.connections[j] ]_vars

\* C21 happens: in a batched run the first session has failed, nothing is
\* cancelled, the second session was launched and is connected
C21_Witness ==
    /\ slowMode
    /\ batchSize = 1
    /\ ~noDashboard
    /\ ~cancelled
    /\ pc[0] = "done"
    /\ d.connections[0].Status = StatusFailed
    /\ pc[1] = "keepwait"
    /\ d.connections[1].Status = StatusConnected

\* C22: last write wins.  After any sequence of UpdateConnection calls the
\* entry of the index written last holds the status, the attempts and the
\* error text of that call, whatever the entry held before (a Failed entry
\* is replaced by a Connecting or Retrying one like any other), and in every
\* state UpdateConnection, called with any arguments, returns having stored
\* them.
C22_LastWriteWins ==
    /\ ucall # NoCall =>
          /\ ucall.index \in DOMAIN d.connections
          /\ d.connections[ucall.index].Status = ucall.status
          /\ d.connections[ucall.index].Attempts = ucall.attempts
          /\ d.connections[ucall.index].LastError = ucall.lastError
    /\ \A i \in Callers, status \in Statuses, attempts \in AttemptsIn :
          \A lastError \in ErrorsIn(status) :
              LET info == UpdateConnection(d, i, status, attempts, lastError,
                                           now).connections[i]
              IN  <<info.Status, info.Attempts, info.LastError>>
                     = <<status, attempts, lastError>>

\* a Failed entry has been written again, as Retrying, next to another entry
C22_Witness ==
    /\ ucall.prev = StatusFailed
    /\ ucall.status = StatusRetrying
    /\ d.connections[ucall.index].Status = StatusRetrying
    /\ Cardinality(DOMAIN d.connections) = 2

\* C23: two GetStats calls with no UpdateConnection between them return the
\* same snapshot, LastUpdate and the map of connections included, however
\* much time passes between them, and GetStats leaves the dashboard as it is.
C23_SnapshotIdempotent ==
    [][ /\ (snap # NoSnapshot /\ snap' # NoSnapshot) => snap' = snap
        /\ (snap' # NoSnapshot /\ snap' # snap) => d' = d ]_vars

\* a snapshot of two entries has been returned and time has passed since
C23_Witness ==
    /\ snap # NoSnapshot
    /\ snap = GetStats(d)
    /\ Cardinality(DOMAIN snap.Connections) = 2
    /\ now > snap.LastUpdate

\* C24: for every session index the attempts value held by the aggregator
\* never decreases over the run, whichever report (Connecting, Retrying,
\* Connected, Failed) the session task makes.
C24_AttemptsMonotone ==
    [][ \A i \in DOMAIN d.connections :
          /\ i \in DOMAIN d'.connections
          /\ d'.connections[i].Attempts >= d.connections[i].Attempts ]_vars

\* C25: for every index ConnectedAt is set once, by the first report whose
\* status is Connected, and no later UpdateConnection for that index changes
\* it, a second Connected after a status other than Connected included.
C25_ConnectedAtSetOnce ==
    [][ \A i \in DOMAIN d.connections :
          /\ i \in DOMAIN d'.connections
          /\ d.connections[i].ConnectedAt # 0
                => d'.connections[i].ConnectedAt = d.connections[i].ConnectedAt
          /\ (d.connections[i].ConnectedAt = 0
                /\ d'.connections[i].Status = StatusConnected)
                => d'.connections[i].ConnectedAt = now ]_vars

\* C26: no leaked connection.  A task whose handler has returned (retry
\* exhaustion, send failure, cancellation in any phase) has no open
\* connection, and a task holds at most one: a connection is open only while
\* the task is in its message loop, and the task dials only while it has
\* never had a connection.
C26_NoLeakedConnection ==
    \A i \in Indices :
        /\ pc[i] \in {"result", "done"} => chConn[i] # "open"
        /\ chConn[i] = "open" => pc[i] \in {"send", "keepwait"}
        /\ pc[i] \in {"dial", "backoff"} => chConn[i] = "nil"

\* one task has left its message loop on cancellation and the other on a
\* failed send, both with the connection they dialed closed
C26_Witness ==
    /\ totalViewers = 2
    /\ \E i, j \in Indices :
          /\ CancelExit(i) /\ pc[i] = "done" /\ chConn[i] = "closed"
          /\ SendFailed(j) /\ pc[j] = "done" /\ chConn[j] = "closed"

\* C27: keepalive alternation.  The first message a connected session sends
\* is a channel handshake carrying the channel id, every later message is of
\* the other kind than the one before it (so the 1st, 3rd, 5th... are
\* handshakes and the 2nd, 4th, 6th... pings), a send begins only after the
\* dial or after a keepalive wait, a send is followed by that wait unless it
\* failed, and the wait ends the task once cancellation has been signalled.
C27_KeepaliveAlternation ==
    [][ \A i \in Indices :
          /\ (pc[i] = "dial" /\ pc'[i] = "send")
                => Message(counter'[i])
                      = [Type |-> "channel_handshake", Data |-> <<chChannelID>>]
          /\ (pc[i] = "keepwait" /\ pc'[i] = "send")
                => /\ Message(counter'[i]).Type # Message(counter[i]).Type
                   /\ Message(counter'[i]).Type
                         \in {"ping", "channel_handshake"}
                   /\ Message(counter'[i]).Type = "channel_handshake"
                         => Message(counter'[i]).Data = <<chChannelID>>
          /\ (pc[i] # "send" /\ pc'[i] = "send")
                => pc[i] \in {"dial", "keepwait"}
          /\ (pc[i] = "send" /\ pc'[i] # "send")
                => \/ pc'[i] = "keepwait" /\ counter'[i] = counter[i]
                   \/ pc'[i] = "result" /\ SendFailed(i)'
          /\ (pc[i] = "keepwait" /\ cancelled /\ pc'[i] # "keepwait")
                => CancelExit(i)' ]_vars

\* a session is waiting after its second message, a ping
C27_Witness ==
    \E i \in Indices :
        /\ pc[i] = "keepwait"
        /\ chConn[i] = "open"
        /\ Message(counter[i]).Type = "ping"

\* C28: the batch plan the scheduler runs with has batchSize > 0 and
\* totalCount >= 1, whatever the operator supplied: once the batched
\* scheduler has begun, the batch size is positive.
C28_BatchPlanValid ==
    (slowMode /\ mpc # "schedule") => (batchSize > 0 /\ totalViewers >= 1)

\* C29: the aggregator's lock is held only for one recomputation or one
\* snapshot copy: every holder of the write lock is inside recalculateStats,
\* every holder of the read lock is copying the snapshot, and no holder is
\* at an external call such as terminal output.
C29_LockOnlyForCompute ==
    /\ \A i \in mu.writers : upc[i] \in {"recalc", "range"}
    /\ \A h \in mu.readers :
          /\ ~AtTerminalOutput(h)
          /\ h = "reader" /\ rpc \in {"fields", "copied"}

\* a session for which the token, the dial and every send succeeded and
\* which ended on cancellation
AllSucceeded(i) == CancelExit(i) /\ dials[i] = 1 /\ chConn[i] = "closed"

\* C30: the all-success scenario.  In immediate mode with the dashboard on,
\* when every token acquisition, dial and send of every session succeeded,
\* the state after the join barrier (which follows the operator's
\* cancellation) has Connected equal to the number of viewers and a success
\* rate of 100, and so has the snapshot the final summary prints.
C30_AllSuccess ==
    (/\ Joined
     /\ ~slowMode
     /\ ~noDashboard
     /\ \A i \in Callers : AllSucceeded(i))
        => /\ cancelled
           /\ d.Connected = totalViewers
           /\ d.SuccessRate = <<100, 1>>
           /\ mpc \in {"exit", "done"}
                 => /\ snap.Connected = totalViewers
                    /\ snap.SuccessRate = <<100, 1>>

\* two viewers, both sessions connected at once and ended by the operator's
\* signal, the summary printed
C30_Witness ==
    /\ totalViewers = 2
    /\ ~slowMode
    /\ ~noDashboard
    /\ mpc = "exit"
    /\ \A i \in Callers : AllSucceeded(i)
    /\ snap.Connected = 2

\* the status the aggregator s holds for index i, NoStatus when it has none
StatusOf(s, i) ==
    IF i \in DOMAIN s.connections THEN s.connections[i].Status ELSE NoStatus

\* C31: for every index the status the aggregator holds follows the session
\* state machine: the first status is Connecting; the status becomes
\* Retrying or Connected only from Connecting; it becomes Connecting again
\* only from Retrying; from Connected it can only become Failed; and once it
\* is Failed it never changes again.
C31_StatusStateMachine ==
    [][ \A i \in Indices :
          LET old == StatusOf(d, i)
              new == StatusOf(d', i)
          IN  new # old =>
                /\ new # NoStatus
                /\ old = NoStatus => new = StatusConnecting
                /\ new \in {StatusRetrying, StatusConnected}
                      => old = StatusConnecting
                /\ (new = StatusConnecting /\ old # NoStatus)
                      => old = StatusRetrying
                /\ old = StatusConnected => new = StatusFailed
                /\ old # StatusFailed ]_vars

\* a session went Connecting, Retrying, Connecting, Connected, Failed
C31_Witness ==
    \E i \in Indices :
        /\ StatusOf(d, i) = StatusFailed
        /\ SendFailed(i)
        /\ dials[i] = 2
        /\ Len(reports[i]) >= 6

\* C32: every transition of a session is reported before the task takes its
\* next step.  With the dashboard on, a task inside GetToken or inside
\* connect has its index in the aggregator as Connecting (so a launched
\* session is in the map before its first token request or dial), a task in
\* the retry wait is recorded Retrying, a task in its message loop
\* Connected, and a task that failed Failed; the attempts recorded during a
\* dial, a retry wait and a message loop are those of the current attempt.
C32_TransitionsReported ==
    ~noDashboard =>
        \A i \in Indices :
            /\ pc[i] \in {"token", "dial"} => StatusOf(d, i) = StatusConnecting
            /\ pc[i] = "backoff" => StatusOf(d, i) = StatusRetrying
            /\ pc[i] \in {"send", "keepwait"} => StatusOf(d, i) = StatusConnected
            /\ pc[i] \in {"dial", "backoff", "send", "keepwait"}
                  => d.connections[i].Attempts = attempt[i]
            /\ pc[i] = "result" => StatusOf(d, i) = StatusFailed
            /\ (pc[i] = "done" /\ ~CancelExit(i)) => StatusOf(d, i) = StatusFailed

\* one task is inside GetToken, already in the map, the other is in the
\* retry wait after its second dial
C32_Witness ==
    /\ ~noDashboard
    /\ \E i, j \in Indices :
          /\ pc[i] = "token"
          /\ StatusOf(d, i) = StatusConnecting
          /\ pc[j] = "backoff"
          /\ attempt[j] = 2
          /\ d.connections[j].Attempts = 2

\* C33: UpdateConnection for index i leaves the entry of every other index
\* as it was (status, attempts, lastError, ConnectedAt) and leaves Total,
\* StartTime, ChannelName and ChannelID as they were; only entry i, the
\* derived counters and LastUpdate may change.
C33_UpdateFrame ==
    [][ (d' # d \/ ucall' # ucall) =>
          /\ \A j \in Callers \ {ucall'.index} :
                /\ (j \in DOMAIN d'.connections) <=> (j \in DOMAIN d.connections)
                /\ j \in DOMAIN d.connections
                      => d'.connections[j] = d.connections[j]
          /\ <<d'.Total, d'.StartTime, d'.ChannelName, d'.ChannelID>>
                = <<d.Total, d.StartTime, d.ChannelName, d.ChannelID>> ]_vars

\* an entry has been written over, later than the start, next to another
C33_Witness ==
    /\ ucall # NoCall
    /\ ucall.prev # NoStatus
    /\ Cardinality(DOMAIN d.connections) = 2
    /\ d.LastUpdate > d.StartTime
    /\ \E j \in DOMAIN d.connections :
          j # ucall.index /\ d.connections[j].Status # ucall.status

\* the scheduler of either mode is running
Scheduling == mpc \in {"schedule", "batchLaunch", "batchWait", "launchAll"}

\* one step of the scheduler of either mode
SchedulerStep ==
    \/ Schedule
    \/ BatchLaunch
    \/ BatchTimer
    \/ BatchCancelled
    \/ LaunchAll

\* C34: the scheduler never waits on task completion.  As long as it is
\* running it can take its next step (launch, let the batch delay elapse,
\* return) whatever the session tasks are doing.
C34_SchedulerNeverWaitsOnTasks == Scheduling => ENABLED SchedulerStep

\* the second group has been launched and the scheduler has returned while
\* the task of the first group is still running and no task has exited
C34_Witness ==
    /\ slowMode
    /\ ~cancelled
    /\ mpc = "wgWait"
    /\ totalViewers = 2
    /\ group[0] = 0 /\ group[1] = 1
    /\ pc[0] = "keepwait"
    /\ pc[1] = "start"

\* the scheduler alone, never held back: a step it can take is taken
SpecSchedFair == SpecSched /\ WF_vars(SchedulerStep)

\* "totalBatches := (totalViewers + batchSize - 1) / batchSize"
TotalBatches == (totalViewers + batchSize - 1) \div batchSize

\* the indices a goroutine has been launched for so far
Launched == {i \in DOMAIN launches : launches[i] > 0}

\* C35: scheduler termination.  With a positive batch size the batched
\* scheduler starts at most ceil(totalViewers / batchSize) groups and
\* launches at most totalViewers session tasks, no index twice, and it
\* returns, whether or not the cancellation signal fires.
C35_SchedulerTerminates ==
    /\ [] ((slowMode /\ batchSize > 0) =>
              /\ batches <= TotalBatches
              /\ Launched \subseteq Callers
              /\ \A i \in DOMAIN launches : launches[i] <= 1)
    /\ (slowMode /\ batchSize > 0) ~> (mpc = "wgWait")

\* five viewers in groups of two: the scheduler has returned after its
\* third group without cancellation
C35_Witness ==
    /\ slowMode
    /\ batchSize = 2
    /\ totalViewers = 5
    /\ ~cancelled
    /\ mpc = "wgWait"
    /\ batches = 3
    /\ Launched = Callers

\* C36: the batched scheduler waits the batch delay after each group except
\* the last.  The launch of index totalViewers - 1 is followed by the return
\* of the scheduler with no wait; the launch that ends any other group is
\* followed by a wait; every group but the first is started from a wait,
\* and a wait ends either by the start of the next group (the delay has
\* elapsed, no cancellation) or by the return of the scheduler on
\* cancellation.
C36_WaitBetweenGroups ==
    [][ slowMode =>
          /\ launches'[totalViewers - 1] # launches[totalViewers - 1]
                => mpc' = "wgWait"
          /\ (mpc = "batchLaunch" /\ mpc' # "batchLaunch"
                /\ launches'[totalViewers - 1] = launches[totalViewers - 1])
                => mpc' = "batchWait"
          /\ (batches' # batches /\ batches >= 1) => mpc = "batchWait"
          /\ (mpc = "batchWait" /\ mpc' # "batchWait")
                => \/ ~cancelled /\ batches' = batches + 1
                                /\ mpc' = "batchLaunch"
                   \/ cancelled /\ batches' = batches /\ mpc' = "wgWait" ]_vars

\* four viewers in groups of three: the scheduler has returned straight
\* after its second group, having waited once
C36_Witness ==
    /\ slowMode
    /\ batchSize = 3
    /\ totalViewers = 4
    /\ ~cancelled
    /\ mpc = "wgWait"
    /\ batches = 2
    /\ group[3] = 1

\* C37: each session index has Failed reported to the aggregator at most
\* once over the whole run, whichever way the session fails (token failure,
\* retry exhaustion, send failure in the message loop).
C37_FailedReportedOnce ==
    \A i \in Indices : FailedReports(i) <= 1

\* the indices below k have been launched once each and no other index
LaunchedUpTo(k) ==
    launches = [i \in DOMAIN launches |-> IF i < k THEN 1 ELSE 0]

\* C38: when batchSize >= totalViewers and the cancellation signal has not
\* fired before scheduling begins (so that the first group is started),
\* batched mode behaves as immediate mode does: one group, no wait between
\* batches, the indices launched in order, once each, and 0 ..
\* totalViewers - 1 launched when the scheduler returns.
C38_OneBatchLikeImmediate ==
    /\ (slowMode /\ batchSize >= totalViewers /\ batches >= 1) =>
          /\ batches = 1
          /\ mpc \in {"batchLaunch", "wgWait"}
          /\ mpc = "batchLaunch" => LaunchedUpTo(mj)
          /\ mpc = "wgWait" => LaunchedUpTo(totalViewers)
          /\ \A i \in Launched : group[i] = 0
    /\ ~slowMode =>
          /\ batches = 0
          /\ mpc \in {"schedule", "launchAll", "wgWait"}
          /\ mpc = "launchAll" => LaunchedUpTo(mi)
          /\ mpc = "wgWait" => LaunchedUpTo(totalViewers)

\* two viewers with a batch size of three: the scheduler has returned after
\* its only group
C38_Witness ==
    /\ slowMode
    /\ batchSize = 3
    /\ totalViewers = 2
    /\ mpc = "wgWait"
    /\ batches = 1
    /\ LaunchedUpTo(2)

====
